---- MODULE Spec2Model ----
(***************************************************************************)
(* JesterBot (src/app.py): a Streamlit chat page.  The session state holds *)
(* the conversation history `messages` and the single-slot mailbox         *)
(* `pending_user`.  Every UI event starts one run of main(), which is      *)
(* modelled step by step (pc) so that the states between clear_chat() and  *)
(* the rerun, and between the outbound completion call and its outcome,    *)
(* are observable.                                                         *)
(*                                                                         *)
(* Text is a sequence of chunks; a chunk is either one whitespace          *)
(* character or a run of text.  "" is <<>>.  An Optional[str] is the       *)
(* sequence <<>> (Python None) or <<text>>.                                *)
(***************************************************************************)
EXTENDS Integers, Sequences, FiniteSets, TLC

VARIABLES
    messages,       \* st.session_state.messages
    pending_user,   \* st.session_state.pending_user
    config,         \* the sidebar select boxes' widget state
    pc,             \* position of the running script ("idle": no run)
    clicked,        \* the button that returns True in this run, or "none"
    user_text,      \* st.chat_input's return value in this run
    system_prompt,  \* main's local system_prompt
    caller,         \* which call site of send_user_message is active
    call_messages,  \* send_user_message's local `messages` passed to the API
    turn,           \* observer: the last send_user_message call and its outcome
    run_status,     \* observer: how the last run of main() ended
    pending_sends,  \* observer: sends of the slot's value since it was set
    built           \* a direct call of build_messages: its arguments and result

vars == <<messages, pending_user, config, pc, clicked, user_text, system_prompt,
          caller, call_messages, turn, run_status, pending_sends, built>>

\* ---- bounds ----
MaxHist == 5
MaxSends == 3
MaxBuildLen == 2

\* ---- Python values ----
None == <<>>
Some(t) == <<t>>
Truthy(opt) == opt # None /\ opt[1] # <<>>
Whitespace == {" ", "\n", "\t"}

Message(role, content) == [role |-> role, content |-> content]

\* ---- the widgets' option sets ----
StyleOptions == {<<"One-liner">>, <<"Pun">>}
SafetyOptions == {<<"Family-friendly">>}
AudienceOptions == {<<"General">>, <<"Kids">>}
LengthOptions == {<<"Short (1-2 lines)">>}
Options == [style |-> StyleOptions, safety |-> SafetyOptions,
            audience |-> AudienceOptions, length |-> LengthOptions]
DefaultConfig == [style |-> <<"One-liner">>, safety |-> <<"Family-friendly">>,
                  audience |-> <<"General">>, length |-> <<"Short (1-2 lines)">>]

ClearButton == "Clear chat"
RandomButton == "Tell me something random"
QuickButtons == {"Programmer one-liner", "Coffee pun", "Gentle roast", "Kids + dinosaurs"}
Buttons == {ClearButton, RandomButton} \cup QuickButtons
\* the texts the modelled user types into the chat input
TypedTexts == {<<"Tell me a joke">>}

PromptOf(b) ==
    CASE b = RandomButton -> <<"Surprise me with a fresh, original joke.">>
      [] b = "Programmer one-liner" -> <<"Tell a clean one-liner about programmers.">>
      [] b = "Coffee pun" -> <<"Make a witty pun about coffee.">>
      [] b = "Gentle roast" -> <<"Gently roast my procrastination (keep it kind).">>
      [] b = "Kids + dinosaurs" -> <<"A kids-friendly dinosaur joke, please.">>

\* what response.choices[0].message.content can be when it is a string
RawContents == {<<"joke">>, <<" ", "joke", "\n">>, <<" ", "\n">>, <<>>}
\* the ways generate_reply raises: the API call fails, or content is None
Failures == {"api_error", "content_is_None"}

\* ---- pure functions ----
build_system_prompt(style, safety, audience, length) ==
    <<"You are JesterBot, a friendly, quick-witted joke-telling assistant.", "\n", "\n",
      "Goals:", "\n",
      "- Craft original jokes tailored to the user's request.", "\n",
      "- Style: ">> \o style \o <<"\n",
      "- Safety/Tone: ">> \o safety \o <<"\n",
      "- Audience: ">> \o audience \o <<"\n",
      "- Length: ">> \o length \o <<"\n", "\n",
      "Guidelines:", "\n",
      "- Deliver the joke directly (avoid meta prefaces like 'Here is a joke:').", "\n",
      "- Keep it concise unless asked for more.", "\n",
      "- Avoid offensive content, slurs, hate speech, or punching down.", "\n",
      "- If requested content conflicts with the safety level, decline briefly and offer a cleaner alternative.", "\n",
      "- Prefer clear line breaks where helpful; default to a single joke unless asked for multiple.", "\n",
      "- If asked to explain, provide a brief explanation after the joke.", "\n",
      "- If no topic is given, pick a playful everyday theme.", "\n">>

\* variant: the system message is put after the history
build_messages_appended(p, history) == history \o <<Message("system", p)>>

build_messages(p, history) == <<Message("system", p)>> \o history

RECURSIVE lstrip(_)
lstrip(s) == IF s # <<>> /\ Head(s) \in Whitespace THEN lstrip(Tail(s)) ELSE s

RECURSIVE rstrip(_)
rstrip(s) ==
    IF s # <<>> /\ s[Len(s)] \in Whitespace THEN rstrip(SubSeq(s, 1, Len(s) - 1)) ELSE s

strip(s) == rstrip(lstrip(s))

\* variant: the new message is inserted at the front
add_message_front(history, role, content) == <<Message(role, content)>> \o history

add_message(history, role, content) == Append(history, Message(role, content))

\* variant: the empty list is bound to a local name, the session's list is kept
clear_chat_local == messages

clear_chat == <<>>

\* ---- observers ----
NoTurn == [outcome |-> "none", text |-> <<>>, before |-> <<>>, pending_before |-> None]
NoBuilt == [p |-> <<>>, h |-> <<>>, out |-> <<>>]
Min(a, b) == IF a < b THEN a ELSE b

Init ==
    /\ messages = <<>>
    /\ pending_user = None
    /\ config = DefaultConfig
    /\ pc = "idle"
    /\ clicked = "none"
    /\ user_text = None
    /\ system_prompt = <<>>
    /\ caller = "none"
    /\ call_messages = <<>>
    /\ turn = NoTurn
    /\ run_status = "ok"
    /\ pending_sends = 0
    /\ built = NoBuilt

\* ---- UI events: each starts one run of main() ----
Room(n) == Len(messages) + n <= MaxHist
PendingGrowth == IF Truthy(pending_user) THEN 2 ELSE 0

StartRun(c, u) ==
    /\ pc' = "sidebar"
    /\ clicked' = c
    /\ user_text' = u
    /\ system_prompt' = <<>>
    /\ caller' = "none"
    /\ call_messages' = <<>>
    /\ turn' = NoTurn
    /\ run_status' = "running"
    /\ UNCHANGED <<messages, pending_user, pending_sends, built>>

SelectOption(f, v) ==
    /\ pc = "idle"
    /\ v \in Options[f] \ {config[f]}
    /\ Room(PendingGrowth)
    /\ config' = [config EXCEPT ![f] = v]
    /\ StartRun("none", None)

\* a slider or the model select box changes: a run with no button and no chat text
Refresh ==
    /\ pc = "idle"
    /\ Room(PendingGrowth)
    /\ UNCHANGED config
    /\ StartRun("none", None)

ClickButton(b) ==
    /\ pc = "idle"
    /\ b \in Buttons
    /\ IF b = ClearButton THEN TRUE ELSE Room(2)
    /\ UNCHANGED config
    /\ StartRun(b, None)

SubmitChat(t) ==
    /\ pc = "idle"
    /\ t \in TypedTexts
    /\ Room(2 + PendingGrowth)
    /\ UNCHANGED config
    /\ StartRun("none", Some(t))

\* ---- main(), lines 146-154: the sidebar's buttons ----
SidebarClear ==
    /\ pc = "sidebar"
    /\ clicked = ClearButton
    /\ messages' = clear_chat
    /\ turn' = [NoTurn EXCEPT !.outcome = "cleared", !.before = messages]
    /\ pc' = "rerun"
    /\ UNCHANGED <<pending_user, config, clicked, user_text, system_prompt, caller,
                   call_messages, run_status, pending_sends, built>>

\* st.experimental_rerun(): the script stops and runs again with no widget event
Rerun ==
    /\ pc = "rerun"
    /\ UNCHANGED config
    /\ StartRun("none", None)

SidebarRandom ==
    /\ pc = "sidebar"
    /\ clicked = RandomButton
    /\ pending_user' = Some(PromptOf(RandomButton))
    /\ pending_sends' = 0
    /\ pc' = "render"
    /\ UNCHANGED <<messages, config, clicked, user_text, system_prompt, caller,
                   call_messages, turn, run_status, built>>

SidebarPass ==
    /\ pc = "sidebar"
    /\ clicked \notin {ClearButton, RandomButton}
    /\ pc' = "render"
    /\ UNCHANGED <<messages, pending_user, config, clicked, user_text, system_prompt,
                   caller, call_messages, turn, run_status, pending_sends, built>>

\* variant: the prompt is built from the select boxes' defaults, not the selection
RenderDefaults ==
    /\ pc = "render"
    /\ system_prompt' = build_system_prompt(DefaultConfig.style, DefaultConfig.safety,
                                            DefaultConfig.audience, DefaultConfig.length)
    /\ pc' = "suggest"
    /\ UNCHANGED <<messages, pending_user, config, clicked, user_text, caller,
                   call_messages, turn, run_status, pending_sends, built>>

\* ---- main(), lines 159-164 ----
Render ==
    /\ pc = "render"
    /\ system_prompt' = build_system_prompt(config.style, config.safety,
                                            config.audience, config.length)
    /\ pc' = "suggest"
    /\ UNCHANGED <<messages, pending_user, config, clicked, user_text, caller,
                   call_messages, turn, run_status, pending_sends, built>>

\* ---- main(), lines 166-180: the quick suggestions ----
Suggest ==
    /\ pc = "suggest"
    /\ IF clicked \in QuickButtons
       THEN /\ pending_user' = Some(PromptOf(clicked))
            /\ pending_sends' = 0
       ELSE UNCHANGED <<pending_user, pending_sends>>
    /\ pc' = "chat"
    /\ UNCHANGED <<messages, config, clicked, user_text, system_prompt, caller,
                   call_messages, turn, run_status, built>>

\* ---- send_user_message, lines 72-81: up to the outbound call ----
Continuation(site) ==
    CASE site = "chat" -> "pending"
      [] site = "pending" -> "reset"
      [] site = "unit" -> "idle"

\* variant: the `if not text: return` guard is missing
send_user_message_unguarded(text, site) ==
    /\ messages' = add_message(messages, "user", text)
    /\ call_messages' = build_messages(system_prompt, messages')
    /\ turn' = [outcome |-> IF text = <<>> THEN "noop" ELSE "calling", text |-> text,
                before |-> messages, pending_before |-> pending_user]
    /\ caller' = site
    /\ pc' = "call"

send_user_message(text, site) ==
    IF text = <<>>
    THEN /\ turn' = [outcome |-> "noop", text |-> text, before |-> messages,
                     pending_before |-> pending_user]
         /\ pc' = Continuation(site)
         /\ UNCHANGED <<messages, call_messages, caller>>
    ELSE /\ messages' = add_message(messages, "user", text)
         /\ call_messages' = build_messages(system_prompt, messages')
         /\ turn' = [outcome |-> "calling", text |-> text, before |-> messages,
                     pending_before |-> pending_user]
         /\ caller' = site
         /\ pc' = "call"

\* ---- main(), lines 183-185 ----
ChatInput ==
    /\ pc = "chat"
    /\ IF Truthy(user_text)
       THEN send_user_message(user_text[1], "chat")
       ELSE /\ pc' = "pending"
            /\ UNCHANGED <<messages, call_messages, caller, turn>>
    /\ UNCHANGED <<pending_user, config, clicked, user_text, system_prompt,
                   run_status, pending_sends, built>>

\* ---- main(), lines 188-189 ----
HandlePending ==
    /\ pc = "pending"
    /\ IF Truthy(pending_user)
       THEN /\ send_user_message(pending_user[1], "pending")
            /\ pending_sends' = Min(pending_sends + 1, MaxSends)
            /\ UNCHANGED <<run_status, clicked, user_text, system_prompt>>
       ELSE /\ pc' = "idle"
            /\ run_status' = "ok"
            /\ clicked' = "none"
            /\ user_text' = None
            /\ system_prompt' = <<>>
            /\ UNCHANGED <<messages, call_messages, caller, turn, pending_sends>>
    /\ UNCHANGED <<pending_user, config, built>>

\* ---- main(), line 190 ----
ResetPending ==
    /\ pc = "reset"
    /\ pending_user' = None
    /\ pc' = "idle"
    /\ run_status' = "ok"
    /\ clicked' = "none"
    /\ user_text' = None
    /\ system_prompt' = <<>>
    /\ caller' = "none"
    /\ UNCHANGED <<messages, config, call_messages, turn, pending_sends, built>>

\* variant: the failure is answered with an apology stored as the assistant's message
ReplyRaisesAppends(why) ==
    /\ pc = "call"
    /\ why \in Failures
    /\ messages' = add_message(messages, "assistant", <<"Sorry, something went wrong.">>)
    /\ turn' = [turn EXCEPT !.outcome = "failed"]
    /\ pc' = "idle"
    /\ run_status' = IF caller = "unit" THEN "ok" ELSE "exception"
    /\ clicked' = "none"
    /\ user_text' = None
    /\ system_prompt' = <<>>
    /\ caller' = "none"
    /\ call_messages' = <<>>
    /\ UNCHANGED <<pending_user, config, pending_sends, built>>

\* ---- generate_reply raises (line 53, or .strip() on a None content at line 61) ----
\* Neither send_user_message nor main has a try/except: the exception leaves main()
\* and ends the run.  Lines 84 and 190 are not executed; what was already written to
\* the session state (the user message, the pending slot) stays.
ReplyRaises(why) ==
    /\ pc = "call"
    /\ why \in Failures
    /\ turn' = [turn EXCEPT !.outcome = "failed"]
    /\ pc' = "idle"
    /\ run_status' = IF caller = "unit" THEN "ok" ELSE "exception"
    /\ clicked' = "none"
    /\ user_text' = None
    /\ system_prompt' = <<>>
    /\ caller' = "none"
    /\ call_messages' = <<>>
    /\ UNCHANGED <<messages, pending_user, config, pending_sends, built>>

\* variant: the reply is stored inside the spinner block and again after it
ReplyReturnsTwice(raw) ==
    /\ pc = "call"
    /\ raw \in RawContents
    /\ messages' = add_message(add_message(messages, "assistant", strip(raw)),
                               "assistant", strip(raw))
    /\ turn' = [turn EXCEPT !.outcome = "replied"]
    /\ pc' = Continuation(caller)
    /\ call_messages' = <<>>
    /\ caller' = IF caller = "unit" THEN "none" ELSE caller
    /\ UNCHANGED <<pending_user, config, clicked, user_text, system_prompt,
                   run_status, pending_sends, built>>

\* ---- generate_reply returns (line 61); send_user_message lines 83-84 ----
ReplyReturns(raw) ==
    /\ pc = "call"
    /\ raw \in RawContents
    /\ messages' = add_message(messages, "assistant", strip(raw))
    /\ turn' = [turn EXCEPT !.outcome = "replied"]
    /\ pc' = Continuation(caller)
    /\ call_messages' = <<>>
    /\ caller' = IF caller = "unit" THEN "none" ELSE caller
    /\ UNCHANGED <<pending_user, config, clicked, user_text, system_prompt,
                   run_status, pending_sends, built>>

Next ==
    \/ \E f \in DOMAIN Options : \E v \in Options[f] : SelectOption(f, v)
    \/ Refresh
    \/ \E b \in Buttons : ClickButton(b)
    \/ \E t \in TypedTexts : SubmitChat(t)
    \/ SidebarClear
    \/ Rerun
    \/ SidebarRandom
    \/ SidebarPass
    \/ Render
    \/ Suggest
    \/ ChatInput
    \/ HandlePending
    \/ ResetPending
    \/ \E why \in Failures : ReplyRaises(why)
    \/ \E raw \in RawContents : ReplyReturns(raw)

Spec == Init /\ [][Next]_vars

\* ---- direct calls of the helpers, as a test harness makes them ----
UnitPrompts == {<<"p">>, <<>>}
UnitTexts == TypedTexts \cup {<<>>}
UnitMessages == {Message(r, c) : r \in {"system", "user", "assistant"}, c \in {<<"a">>, <<>>}}
UnitHistories == UNION {[1..n -> UnitMessages] : n \in 0..MaxBuildLen}

UnitSend(t, p) ==
    /\ pc = "idle"
    /\ t \in UnitTexts
    /\ p \in UnitPrompts
    /\ t # <<>> => Room(2)
    /\ system_prompt' = p
    /\ send_user_message(t, "unit")
    /\ UNCHANGED <<pending_user, config, clicked, user_text, run_status,
                   pending_sends, built>>

UnitSetPending(b) ==
    /\ pc = "idle"
    /\ b \in Buttons \ {ClearButton}
    /\ pending_user' = Some(PromptOf(b))
    /\ turn' = NoTurn
    /\ UNCHANGED <<messages, config, pc, clicked, user_text, system_prompt, caller,
                   call_messages, run_status, pending_sends, built>>

UnitClear ==
    /\ pc = "idle"
    /\ messages' = clear_chat
    /\ turn' = [NoTurn EXCEPT !.outcome = "cleared", !.before = messages]
    /\ UNCHANGED <<pending_user, config, pc, clicked, user_text, system_prompt, caller,
                   call_messages, run_status, pending_sends, built>>

UnitBuild(p, h) ==
    /\ pc = "idle"
    /\ p \in UnitPrompts
    /\ h \in UnitHistories
    /\ built' = [p |-> p, h |-> h, out |-> build_messages(p, h)]
    /\ pc' = "built"
    /\ turn' = NoTurn
    /\ UNCHANGED <<messages, pending_user, config, clicked, user_text, system_prompt,
                   caller, call_messages, run_status, pending_sends>>

UnitBuildDone ==
    /\ pc = "built"
    /\ built' = NoBuilt
    /\ pc' = "idle"
    /\ UNCHANGED <<messages, pending_user, config, clicked, user_text, system_prompt,
                   caller, call_messages, turn, run_status, pending_sends>>

NextUnit ==
    \/ \E t \in UnitTexts : \E p \in UnitPrompts : UnitSend(t, p)
    \/ \E b \in Buttons : UnitSetPending(b)
    \/ UnitClear
    \/ \E p \in UnitPrompts : \E h \in UnitHistories : UnitBuild(p, h)
    \/ UnitBuildDone
    \/ \E why \in Failures : ReplyRaises(why)
    \/ \E raw \in RawContents : ReplyReturns(raw)

SpecUnit == Init /\ [][NextUnit]_vars

\* ---- properties ----
IsPrefix(a, b) == Len(a) <= Len(b) /\ SubSeq(b, 1, Len(a)) = a
UserMessage(t) == Message("user", t)
SelectedPrompt ==
    build_system_prompt(config.style, config.safety, config.audience, config.length)

\* C1: a turn whose completion call fails (generate_reply raises) leaves the history
\* equal to the history before the turn plus the one user message; no assistant
\* message is appended.
FailedTurnKeepsOnlyUserMessage ==
    turn.outcome = "failed" => messages = Append(turn.before, UserMessage(turn.text))

\* C1 witness: a turn on a non-empty history has failed
FailedTurnWitness ==
    /\ turn.outcome = "failed"
    /\ Len(turn.before) >= 2
    /\ pc = "idle"

\* C2: a pending prompt is delivered exactly once: the value put in the slot by a
\* button is passed to send_user_message at most once, over any sequence of refresh
\* cycles, failing ones included.
PendingDeliveredOnce == pending_sends <= 1

\* C3: send_user_message with empty text is a no-op: history and the pending slot are
\* unchanged and no outbound completion call is issued.
EmptyTextIsNoOp ==
    turn.outcome = "noop" =>
        /\ messages = turn.before
        /\ pending_user = turn.pending_before
        /\ pc # "call"
        /\ call_messages = <<>>

\* C3 witness: send_user_message("") has returned with a history and a pending prompt
EmptyTextWitness ==
    /\ turn.outcome = "noop"
    /\ turn.text = <<>>
    /\ Len(messages) >= 1
    /\ pending_user # None

\* C4: a turn whose completion call succeeds leaves the history equal to the history
\* before the turn, the user message, and one assistant message with non-empty
\* content; no assistant message in the history has empty content.
SuccessfulTurnAppendsNonEmptyReply ==
    /\ turn.outcome = "replied" =>
          /\ Len(messages) = Len(turn.before) + 2
          /\ SubSeq(messages, 1, Len(messages) - 1)
                = Append(turn.before, UserMessage(turn.text))
          /\ messages[Len(messages)].role = "assistant"
          /\ messages[Len(messages)].content # <<>>
    /\ \A i \in 1..Len(messages) :
          messages[i].role = "assistant" => messages[i].content # <<>>

\* C5: the stored history holds no system message, and the list passed to the
\* completion call is the system message built from the current selection followed
\* by the whole current history, the just-appended user message included.
SystemMessageOnlyInCall ==
    /\ \A i \in 1..Len(messages) : messages[i].role # "system"
    /\ pc = "call" =>
          /\ call_messages # <<>>
          /\ Head(call_messages) = Message("system", SelectedPrompt)
          /\ Tail(call_messages) = messages
          /\ messages[Len(messages)] = UserMessage(turn.text)

\* C5 witness: a call is in flight under a selection that is not the default one
CallUnderChangedSelectionWitness ==
    /\ pc = "call"
    /\ config.style # DefaultConfig.style
    /\ config.audience # DefaultConfig.audience
    /\ Len(messages) >= 3

\* C6: build_messages(p, h) has length len(h)+1, element 0 is the system message
\* with content p, and elements 1..n are h in order.
BuildMessagesShape ==
    pc = "built" =>
        /\ Len(built.out) = Len(built.h) + 1
        /\ built.out[1] = [role |-> "system", content |-> built.p]
        /\ \A i \in 1..Len(built.h) : built.out[i + 1] = built.h[i]

\* C6 witness: build_messages was applied to a history of two different messages
BuildMessagesWitness ==
    /\ pc = "built"
    /\ Len(built.h) = 2
    /\ built.h[1] # built.h[2]
    /\ built.h[1].role = "system"

\* C7: a failing completion call raises no exception out of the run: the refresh
\* cycle that called send_user_message handles it and completes.
NoExceptionEscapes == run_status # "exception"

\* C8: every step other than a clear leaves the old history a prefix of the new one.
HistoryAppendOnly ==
    [][(pc = "sidebar" /\ clicked = ClearButton) \/ IsPrefix(messages, messages')]_vars

\* C8 witness: a reply was appended to a history of three messages, and a button
\* has set the pending slot while the history was not empty
AppendOnlyWitness ==
    /\ Len(messages) >= 4
    /\ turn.outcome = "replied"
    /\ pending_user # None

\* C9: right after clear_chat() the history is empty, whatever it held before.
ClearEmptiesHistory == pc = "rerun" => Len(messages) = 0

\* C9 witness: clear_chat() has run on a history of at least three messages
ClearWitness ==
    /\ pc = "rerun"
    /\ turn.outcome = "cleared"
    /\ Len(turn.before) >= 3

\* C10: every assistant message in the history is immediately preceded by a user
\* message.
AssistantFollowsUser ==
    \A i \in 1..Len(messages) :
        messages[i].role = "assistant" => (i > 1 /\ messages[i - 1].role = "user")

\* C10 witness: the history holds a failed turn followed by a successful one
AlternationWitness ==
    \E i \in 1..Len(messages) :
        /\ i + 2 <= Len(messages)
        /\ messages[i].role = "user"
        /\ messages[i + 1].role = "user"
        /\ messages[i + 2].role = "assistant"

====
